---- MODULE Spec2Model ----
(***************************************************************************)
(* 1-D wave equation solver (explicit central differences, fixed ends).    *)
(*                                                                         *)
(* Two programs of the repository are modelled side by side, started from  *)
(* the same parameter literals:                                            *)
(*   - the script main.py (its time stepping loop is also the body of      *)
(*     update() in main_animation.py): variables dx, nt, x, u, u_prev,     *)
(*     u_next, n, i, heap, pc;                                             *)
(*   - main_modular.py (get_parameters, initialize_fields,                 *)
(*     compute_next_step, run_simulation.update): variables params,        *)
(*     warned, fields, state, total_frames, frame, mheap, mpc.             *)
(*                                                                         *)
(* Numbers.  Python floats and numpy float64 are binary floating point     *)
(* numbers.  A float is modelled as an integer count of 2^-FracBits,       *)
(* rounded to Precision significant bits, round-half-to-even, after every  *)
(* arithmetic operation (IEEE 754 with gradual underflow, at a reduced     *)
(* width).  1.0 is Unit.                                                   *)
(*                                                                         *)
(* Arrays.  numpy arrays are objects: a variable holds a reference (an     *)
(* index into the heap), np.zeros / np.copy / np.exp allocate, and         *)
(* a[k] = v writes through the reference.  Python index k is index k+1.    *)
(***************************************************************************)
EXTENDS Integers, Sequences, FiniteSets

VARIABLES
    inp,            \* the parameter literals: [L, T, c, nx, dt]
    \* ---- main.py ----
    pc, dx, nt, x, heap, u, u_prev, u_next, n, i,
    \* ---- main_modular.py ----
    mpc, params, warned, fields, mheap, state, total_frames, frame, new_u,
    \* ---- history (not in the programs): what each rotation left behind ----
    hist, mhist

vars == <<inp, pc, dx, nt, x, heap, u, u_prev, u_next, n, i,
          mpc, params, warned, fields, mheap, state, total_frames, frame, new_u,
          hist, mhist>>

loopVars == <<pc, dx, nt, x, heap, u, u_prev, u_next, n, i, hist>>
modVars  == <<mpc, params, warned, fields, mheap, state, total_frames, frame,
              new_u, mhist>>

-----------------------------------------------------------------------------
(* Bounds of the model *)

\* significant bits of a float (53 in float64)
Precision == 10
\* fractional bits of the smallest float step (1074 in float64)
FracBits == 12
\* nx ranges over 1..MaxNx
MaxNx == 5
\* T ranges over -1.0, 0.0, 1.0 .. MaxT.0
MaxT == 2
\* the solver alone is applied to fields of 3..MaxLen entries
MaxLen == 4

-----------------------------------------------------------------------------
(* Floating point *)

Unit == 2^FracBits

Abs(a) == IF a < 0 THEN -a ELSE a

\* num/den (den > 0) rounded to the nearest integer, ties to the even one
RoundHalfEven(num, den) ==
    LET f == num \div den
        r == num - f * den
    IN  IF 2 * r < den THEN f
        ELSE IF 2 * r > den THEN f + 1
        ELSE IF f % 2 = 0 THEN f ELSE f + 1

\* num/den (den > 0) rounded to the nearest float: Precision significant bits
RECURSIVE RoundQ(_, _)
RoundQ(num, den) ==
    IF Abs(num) < (2^Precision) * den
    THEN RoundHalfEven(num, den)
    ELSE 2 * RoundQ(num, 2 * den)

\* the float nearest to the decimal literal num/den
Flt(num, den) == RoundQ(num * Unit, den)

FAdd(a, b) == RoundQ(a + b, 1)
FSub(a, b) == RoundQ(a - b, 1)
\* a * b.  A float is odd * 2^k with odd < 2^Precision: the product is formed
\* from the odd parts, which keeps the intermediate value small.
RECURSIVE TrailingZeros(_)
TrailingZeros(a) == IF a % 2 # 0 THEN 0 ELSE 1 + TrailingZeros(a \div 2)
FMul(a, b) ==
    IF a = 0 \/ b = 0 THEN 0
    ELSE LET sa == TrailingZeros(a)
             sb == TrailingZeros(b)
             m  == (a \div 2^sa) * (b \div 2^sb)
             e  == sa + sb - FracBits
         IN  IF e >= 0 THEN RoundQ(m * 2^e, 1) ELSE RoundQ(m, 2^(-e))
\* a / b for b # 0 (Python raises ZeroDivisionError for b = 0: see the callers)
FDiv(a, b) == IF b > 0 THEN RoundQ(a * Unit, b) ELSE RoundQ(-(a * Unit), -b)
FNeg(a) == -a
\* x**2
FSquare(a) == FMul(a, a)
\* int(a): truncation towards zero
PyInt(a) == IF a >= 0 THEN a \div Unit ELSE -((-a) \div Unit)

\* exp(a) for a <= 0: the alternating series 1 - s + s^2/2! - ... of exp(-s),
\* summed in fixed point with 16 guard bits until the terms vanish, then
\* rounded to a float.  The next term is term * s / (k + 1), formed from the odd
\* part of s to keep the intermediate value small.
RECURSIVE ExpSeries(_, _, _, _)
ExpSeries(s, k, term, sum) ==
    IF term = 0 THEN sum
    ELSE LET z    == TrailingZeros(s)
             odd  == s \div 2^z
             next == IF z <= FracBits
                     THEN RoundHalfEven(term * odd, (k + 1) * 2^(FracBits - z))
                     ELSE RoundHalfEven(term * odd * 2^(z - FracBits), k + 1)
         IN  ExpSeries(s, k + 1, next,
                       IF k % 2 = 0 THEN sum + term ELSE sum - term)

Exp(a) == IF a = 0 THEN Unit ELSE RoundQ(ExpSeries(-a, 0, 2^16, 0) * Unit, 2^16)

-----------------------------------------------------------------------------
(* numpy arrays *)

\* np.zeros(k)
Zeros(k) == [j \in 1..k |-> 0]

\* np.linspace(0, stop, num), num >= 1: step = stop/(num-1), y[k] = k*step,
\* and the last entry is set to stop itself
Linspace(stop, num) ==
    IF num = 1 THEN <<0>>
    ELSE LET step == FDiv(stop, (num - 1) * Unit)
         IN  [k \in 1..num |->
                 IF k = num THEN stop ELSE FAdd(FMul((k - 1) * Unit, step), 0)]

\* np.exp(-(x - L/2)**2)
Gaussian(xs, L) ==
    [k \in 1..Len(xs) |-> Exp(FNeg(FSquare(FSub(xs[k], FDiv(L, 2 * Unit)))))]

\* elementwise a - b, a + b, s * a
VSub(a, b) == [k \in 1..Len(a) |-> FSub(a[k], b[k])]
VAdd(a, b) == [k \in 1..Len(a) |-> FAdd(a[k], b[k])]
VScale(s, a) == [k \in 1..Len(a) |-> FMul(s, a[k])]

\* a[lo:hi] for 0 <= lo, hi <= len(a) (Python slice, end exclusive)
Slice(a, lo, hi) == IF hi <= lo THEN <<>> ELSE SubSeq(a, lo + 1, hi)

-----------------------------------------------------------------------------
(* The parameter literals *)

Lengths == {Flt(0, 1), Flt(2, 1), Flt(4, 1)}
Speeds  == {Flt(0, 1), Flt(1, 2), Flt(1, 1)}
Counts  == 1..MaxNx
Steps   == {Flt(0, 1), Flt(1, 2), Flt(3, 4)}
Times   == {Flt(k, 1) : k \in -1..MaxT}

Inputs == [L : Lengths, T : Times, c : Speeds, nx : Counts, dt : Steps]

-----------------------------------------------------------------------------
(* The update rule *)

Two == Flt(2, 1)

\* (c*dt/dx)**2, for dx # 0
Courant2(c, dt, d) == FSquare(FDiv(FMul(c, dt), d))

\* main.py:26, main_animation.py:45, at Python index k of fields cur, prev:
\*   2*u[k] - u_prev[k] + C2 * (u[k+1] - 2*u[k] + u[k-1])
Kernel(cur, prev, k, C2) ==
    FAdd(FSub(FMul(Two, cur[k + 1]), prev[k + 1]),
         FMul(C2, FAdd(FSub(cur[k + 2], FMul(Two, cur[k + 1])), cur[k])))

\* the stop of range(1, nx - 1)
InnerStopShort(nx) == nx - 2
InnerStop(nx) == nx - 1

\* main_modular.py compute_next_step(u, u_prev, params): the array it returns
StencilShifted(cur, prev, p) ==
    LET len   == Len(cur)
        C2    == Courant2(p.c, p.dt, p.dx)
        mid   == Slice(cur, 1, len - 1)
        right == Slice(cur, 1, len - 1)
        left  == Slice(cur, 0, len - 2)
        pmid  == Slice(prev, 1, len - 1)
        rhs   == VAdd(VSub(VScale(Two, mid), pmid),
                      VScale(C2, VAdd(VSub(right, VScale(Two, mid)), left)))
        inner == [k \in 1..len |->
                     IF k >= 2 /\ k <= len - 1 THEN rhs[k - 1] ELSE Zeros(len)[k]]
    IN  [inner EXCEPT ![1] = 0, ![len] = 0]
StencilLeftShifted(cur, prev, p) ==
    LET len   == Len(cur)
        C2    == Courant2(p.c, p.dt, p.dx)
        mid   == Slice(cur, 1, len - 1)
        right == Slice(cur, 2, len)
        left  == Slice(cur, 1, len - 1)
        pmid  == Slice(prev, 1, len - 1)
        rhs   == VAdd(VSub(VScale(Two, mid), pmid),
                      VScale(C2, VAdd(VSub(right, VScale(Two, mid)), left)))
        inner == [k \in 1..len |->
                     IF k >= 2 /\ k <= len - 1 THEN rhs[k - 1] ELSE Zeros(len)[k]]
    IN  [inner EXCEPT ![1] = 0, ![len] = 0]
compute_next_step(cur, prev, p) ==
    LET len   == Len(cur)
        \* u_next = np.zeros_like(u)
        zero  == Zeros(len)
        C2    == Courant2(p.c, p.dt, p.dx)
        \* u[1:-1], u[2:], u[:-2], u_prev[1:-1]
        mid   == Slice(cur, 1, len - 1)
        right == Slice(cur, 2, len)
        left  == Slice(cur, 0, len - 2)
        pmid  == Slice(prev, 1, len - 1)
        rhs   == VAdd(VSub(VScale(Two, mid), pmid),
                      VScale(C2, VAdd(VSub(right, VScale(Two, mid)), left)))
        \* u_next[1:-1] = rhs
        inner == [k \in 1..len |->
                     IF k >= 2 /\ k <= len - 1 THEN rhs[k - 1] ELSE zero[k]]
        \* u_next[0] = 0; u_next[-1] = 0
    IN  [inner EXCEPT ![1] = 0, ![len] = 0]

-----------------------------------------------------------------------------
(* Initial state: the literals are chosen, nothing has run *)

Init ==
    /\ inp \in Inputs
    /\ pc = "parameters"
    /\ dx = 0 /\ nt = 0 /\ x = <<>> /\ heap = <<>>
    /\ u = 0 /\ u_prev = 0 /\ u_next = 0 /\ n = 0 /\ i = 0
    /\ hist = <<>>
    /\ mpc = "get_parameters"
    /\ params = [L |-> 0, T |-> 0, c |-> 0, nx |-> 0, dt |-> 0, dx |-> 0]
    /\ warned = FALSE
    /\ fields = [x |-> <<>>, u |-> 0, u_prev |-> 0, u_next |-> 0]
    /\ mheap = <<>> /\ state = <<0, 0>> /\ total_frames = 0 /\ frame = 0
    /\ new_u = 0
    /\ mhist = <<>>

-----------------------------------------------------------------------------
(* main.py *)

\* lines 5-11: dx = L / (nx - 1); nt = int(T / dt)
Parameters ==
    /\ pc = "parameters"
    /\ \/ /\ inp.nx - 1 # 0 /\ inp.dt # 0
          /\ dx' = FDiv(inp.L, (inp.nx - 1) * Unit)
          /\ nt' = PyInt(FDiv(inp.T, inp.dt))
          /\ pc' = "arrays"
       \/ /\ inp.nx - 1 = 0 \/ inp.dt = 0
          /\ pc' = "ZeroDivisionError"
          /\ UNCHANGED <<dx, nt>>
    /\ UNCHANGED <<inp, x, heap, u, u_prev, u_next, n, i, hist>>
    /\ UNCHANGED modVars

\* lines 14-21: three zero arrays, the grid, the Gaussian pulse and its copy
Arrays ==
    /\ pc = "arrays"
    /\ x' = Linspace(inp.L, inp.nx)
    /\ LET pulse == Gaussian(x', inp.L)
       IN  /\ heap' = <<Zeros(inp.nx), Zeros(inp.nx), Zeros(inp.nx), pulse, pulse>>
           /\ hist' = <<[cur |-> pulse, prev |-> pulse]>>
    /\ u_next' = 3 /\ u_prev' = 4 /\ u' = 5
    /\ n' = 0
    /\ pc' = "for_n"
    /\ UNCHANGED <<inp, dx, nt, i>>
    /\ UNCHANGED modVars

\* line 24: for n in range(nt)
ForNInclusive ==
    /\ pc = "for_n"
    /\ \/ /\ n <= nt
          /\ i' = 1
          /\ pc' = "for_i"
       \/ /\ n > nt
          /\ pc' = "plot"
          /\ UNCHANGED i
    /\ UNCHANGED <<inp, dx, nt, x, heap, u, u_prev, u_next, n, hist>>
    /\ UNCHANGED modVars
ForN ==
    /\ pc = "for_n"
    /\ \/ /\ n < nt
          /\ i' = 1
          /\ pc' = "for_i"
       \/ /\ n >= nt
          /\ pc' = "plot"
          /\ UNCHANGED i
    /\ UNCHANGED <<inp, dx, nt, x, heap, u, u_prev, u_next, n, hist>>
    /\ UNCHANGED modVars

\* lines 25-26: for i in range(1, nx - 1): u_next[i] = ...
ForI ==
    /\ pc = "for_i"
    /\ \/ /\ i < InnerStop(inp.nx) /\ dx # 0
          /\ heap' = [heap EXCEPT ![u_next][i + 1] =
                         Kernel(heap[u], heap[u_prev], i, Courant2(inp.c, inp.dt, dx))]
          /\ i' = i + 1
          /\ UNCHANGED pc
       \/ /\ i < InnerStop(inp.nx) /\ dx = 0
          /\ pc' = "ZeroDivisionError"
          /\ UNCHANGED <<heap, i>>
       \/ /\ i >= InnerStop(inp.nx)
          /\ pc' = "rotate"
          /\ UNCHANGED <<heap, i>>
    /\ UNCHANGED <<inp, dx, nt, x, u, u_prev, u_next, n, hist>>
    /\ UNCHANGED modVars

\* lines 29-30: u_prev = np.copy(u); u = np.copy(u_next)
RotateAliased ==
    /\ pc = "rotate"
    /\ heap' = Append(heap, heap[u])
    /\ u_prev' = Len(heap) + 1
    /\ u' = u_next
    /\ hist' = Append(hist, [cur |-> heap'[u'], prev |-> heap'[u_prev']])
    /\ n' = n + 1
    /\ pc' = "for_n"
    /\ UNCHANGED <<inp, dx, nt, x, u_next, i>>
    /\ UNCHANGED modVars
Rotate ==
    /\ pc = "rotate"
    /\ heap' = Append(Append(heap, heap[u]), heap[u_next])
    /\ u_prev' = Len(heap) + 1
    /\ u' = Len(heap) + 2
    /\ hist' = Append(hist, [cur |-> heap'[u'], prev |-> heap'[u_prev']])
    /\ n' = n + 1
    /\ pc' = "for_n"
    /\ UNCHANGED <<inp, dx, nt, x, u_next, i>>
    /\ UNCHANGED modVars

\* lines 33-38: the final plot
Plot ==
    /\ pc = "plot"
    /\ pc' = "done"
    /\ UNCHANGED <<inp, dx, nt, x, heap, u, u_prev, u_next, n, i, hist>>
    /\ UNCHANGED modVars

-----------------------------------------------------------------------------
(* main_modular.py *)

\* c * dt / dx, for dx # 0
Courant(c, dt, d) == FDiv(FMul(c, dt), d)

\* line 23: if C > 1
UnstableInclusive(C) == C >= Unit
Unstable(C) == C > Unit

\* get_parameters, lines 11-26
get_parameters ==
    /\ mpc = "get_parameters"
    /\ \/ /\ inp.nx - 1 # 0
          /\ FDiv(inp.L, (inp.nx - 1) * Unit) # 0
          /\ params' = [L |-> inp.L, T |-> inp.T, c |-> inp.c, nx |-> inp.nx,
                        dt |-> inp.dt, dx |-> FDiv(inp.L, (inp.nx - 1) * Unit)]
          /\ warned' = Unstable(Courant(params'.c, params'.dt, params'.dx))
          /\ mpc' = "initialize_fields"
       \/ \* line 19: nx - 1 = 0
          /\ inp.nx - 1 = 0
          /\ mpc' = "ZeroDivisionError"
          /\ UNCHANGED <<params, warned>>
       \/ \* line 22: dx = 0
          /\ inp.nx - 1 # 0
          /\ FDiv(inp.L, (inp.nx - 1) * Unit) = 0
          /\ mpc' = "ZeroDivisionError"
          /\ UNCHANGED <<params, warned>>
    /\ UNCHANGED <<inp, fields, mheap, state, total_frames, frame, new_u,
                   mhist>>
    /\ UNCHANGED loopVars

\* initialize_fields(params), lines 33-54
initialize_fields ==
    /\ mpc = "initialize_fields"
    /\ LET xs    == Linspace(params.L, params.nx)
           pulse == Gaussian(xs, params.L)
       IN  /\ mheap' = <<Zeros(params.nx), Zeros(params.nx), Zeros(params.nx),
                         pulse, pulse>>
           /\ fields' = [x |-> xs, u |-> 5, u_prev |-> 4, u_next |-> 3]
    /\ mpc' = "run_simulation"
    /\ UNCHANGED <<inp, params, warned, state, total_frames, frame, new_u,
                   mhist>>
    /\ UNCHANGED loopVars

\* run_simulation, lines 104 and 121: state = [u, u_prev];
\* total_frames = int(params['T'] / params['dt'])
run_simulation ==
    /\ mpc = "run_simulation"
    /\ state' = <<fields.u, fields.u_prev>>
    /\ mhist' = <<[cur |-> mheap[fields.u], prev |-> mheap[fields.u_prev]]>>
    /\ \/ /\ params.dt # 0
          /\ total_frames' = PyInt(FDiv(params.T, params.dt))
          /\ frame' = 0
          /\ mpc' = "animate"
       \/ /\ params.dt = 0
          /\ mpc' = "ZeroDivisionError"
          /\ UNCHANGED <<total_frames, frame>>
    /\ UNCHANGED <<inp, params, warned, fields, mheap, new_u>>
    /\ UNCHANGED loopVars

\* update(frame), lines 106-118, called for each frame of range(total_frames)
updateSwapped ==
    /\ mpc = "animate"
    /\ frame < total_frames
    /\ LET current_u == state[1]
           old_u     == state[2]
       IN  /\ mheap' = Append(mheap,
                              compute_next_step(mheap[current_u], mheap[old_u], params))
           /\ new_u' = Len(mheap) + 1
           /\ state' = <<new_u', new_u'>>
    /\ mhist' = Append(mhist, [cur |-> mheap'[state'[1]], prev |-> mheap'[state'[2]]])
    /\ frame' = frame + 1
    /\ UNCHANGED <<inp, mpc, params, warned, fields, total_frames>>
    /\ UNCHANGED loopVars
update ==
    /\ mpc = "animate"
    /\ frame < total_frames
    /\ LET current_u == state[1]
           old_u     == state[2]
       IN  /\ mheap' = Append(mheap,
                              compute_next_step(mheap[current_u], mheap[old_u], params))
           /\ new_u' = Len(mheap) + 1
           \* state[1] = current_u; state[0] = new_u
           /\ state' = <<new_u', current_u>>
    /\ mhist' = Append(mhist, [cur |-> mheap'[state'[1]], prev |-> mheap'[state'[2]]])
    /\ frame' = frame + 1
    /\ UNCHANGED <<inp, mpc, params, warned, fields, total_frames>>
    /\ UNCHANGED loopVars

\* lines 127-128: the frames are exhausted, the animation is saved
Saved ==
    /\ mpc = "animate"
    /\ frame >= total_frames
    /\ mpc' = "done"
    /\ UNCHANGED <<inp, params, warned, fields, mheap, state, total_frames, frame,
                   new_u, mhist>>
    /\ UNCHANGED loopVars

-----------------------------------------------------------------------------

Next ==
    \/ Parameters \/ Arrays \/ ForN \/ ForI \/ Rotate \/ Plot
    \/ get_parameters \/ initialize_fields \/ run_simulation \/ update \/ Saved

Spec == Init /\ [][Next]_vars


-----------------------------------------------------------------------------
(* The solver alone: compute_next_step applied to arbitrary fields *)

CurValues  == {FNeg(Flt(1, 2)), Flt(0, 1), Flt(3, 32)}
PrevValues == {Flt(0, 1), Flt(1, 1)}

SolverParams(len) ==
    {[L |-> FMul(d, len * Unit - Unit), T |-> Flt(0, 1), c |-> c, nx |-> len,
      dt |-> dt, dx |-> d] :
        c \in Speeds, dt \in Steps \ {Flt(0, 1)}, d \in {Flt(1, 2), Flt(1, 1)}}

InitSolver ==
    /\ \E len \in 3..MaxLen :
          /\ params \in SolverParams(len)
          /\ \E cur \in [1..len -> CurValues], prev \in [1..len -> PrevValues] :
                mheap = <<cur, prev>>
    /\ inp = [L |-> params.L, T |-> params.T, c |-> params.c, nx |-> params.nx,
              dt |-> params.dt]
    /\ mpc = "compute_next_step"
    /\ state = <<1, 2>>
    /\ new_u = 0
    /\ warned = FALSE
    /\ fields = [x |-> <<>>, u |-> 0, u_prev |-> 0, u_next |-> 0]
    /\ total_frames = 0 /\ frame = 0
    /\ mhist = <<>>
    /\ pc = "idle"
    /\ dx = 0 /\ nt = 0 /\ x = <<>> /\ heap = <<>>
    /\ u = 0 /\ u_prev = 0 /\ u_next = 0 /\ n = 0 /\ i = 0
    /\ hist = <<>>

\* new_u = compute_next_step(current_u, old_u, params)
SolverCall ==
    /\ mpc = "compute_next_step"
    /\ mheap' = Append(mheap, compute_next_step(mheap[state[1]], mheap[state[2]], params))
    /\ new_u' = Len(mheap) + 1
    /\ mpc' = "returned"
    /\ UNCHANGED <<inp, params, warned, fields, state, total_frames, frame,
                   mhist>>
    /\ UNCHANGED loopVars

NextSolver == SolverCall

SpecSolver == InitSolver /\ [][NextSolver]_vars

-----------------------------------------------------------------------------
(* Vocabulary of the properties *)

\* the parameter domain of the data model: L > 0, c > 0, N >= 3, dt > 0, T >= 0
Valid(q) == q.L > 0 /\ q.c > 0 /\ q.nx >= 3 /\ q.dt > 0 /\ q.T >= 0

\* the fields of main.py exist / those of main_modular.py exist
Built  == heap # <<>>
MBuilt == mheap # <<>>

\* the current field of main_modular.py: the one initialize_fields returned,
\* then state[0]
MCurrent == IF mhist = <<>> THEN mheap[fields.u] ELSE mheap[state[1]]

BoundaryZero(f) == f[1] = 0 /\ f[Len(f)] = 0

Symmetric(f) == \A k \in 1..Len(f) : f[k] = f[Len(f) + 1 - k]

\* floor(q) of a float q >= 0, as the k with k <= q < k + 1
Floor(q) == CHOOSE k \in 0..q : k * Unit <= q /\ q < (k + 1) * Unit

Min(a, b) == IF a < b THEN a ELSE b

-----------------------------------------------------------------------------
(* C1 *)

\* C1: at every step n >= 0, the initial field included, the current field has
\* field[0] = 0 and field[N-1] = 0 (stated for valid parameters).
C1_BoundaryInvariant ==
    Valid(inp) =>
        /\ Built => BoundaryZero(heap[u])
        /\ MBuilt => BoundaryZero(MCurrent)

-----------------------------------------------------------------------------
(* C2 *)

\* C2: compute_next_step returns an array of the length of its inputs with
\* next[i] = 2*cur[i] - prev[i] + C2*(cur[i+1] - 2*cur[i] + cur[i-1]) at every
\* interior index and 0 at both ends, whatever the inputs hold at their ends.
C2_StepResult ==
    mpc = "returned" =>
        LET cur == mheap[state[1]]
            prev == mheap[state[2]]
            next == mheap[new_u]
            C == FDiv(FMul(params.c, params.dt), params.dx)
            C2 == FMul(C, C)
        IN  /\ Len(next) = Len(cur)
            /\ DOMAIN next = 1..Len(cur)
            /\ \A k \in 2..(Len(cur) - 1) :
                  next[k] = FAdd(FSub(FMul(Two, cur[k]), prev[k]),
                                 FMul(C2, FAdd(FSub(cur[k + 1], FMul(Two, cur[k])),
                                               cur[k - 1])))
            /\ next[1] = 0
            /\ next[Len(cur)] = 0

\* a call has returned for inputs with non-zero ends and a non-zero result
C2_Witness ==
    /\ mpc = "returned"
    /\ mheap[state[1]][1] # 0 /\ mheap[state[2]][Len(mheap[state[2]])] # 0
    /\ Len(mheap[new_u]) = 4
    /\ mheap[new_u][2] # 0 /\ mheap[new_u][3] # mheap[new_u][2]
    /\ params.c # 0

-----------------------------------------------------------------------------
(* C3 *)

-----------------------------------------------------------------------------
(* C4 *)

\* C4: computing next never changes an entry of the arrays read as current and
\* previous, and the array written as next is neither of them: in main.py's
\* loop (every single write u_next[i] = ...) and in update().
C4_InputsNotMutated ==
    [][ /\ pc = "for_i" =>
              /\ heap'[u] = heap[u]
              /\ heap'[u_prev] = heap[u_prev]
              /\ u_next # u /\ u_next # u_prev
        /\ (mpc = "animate" /\ frame' # frame) =>
              /\ mheap'[state[1]] = mheap[state[1]]
              /\ mheap'[state[2]] = mheap[state[2]]
              /\ new_u' # state[1] /\ new_u' # state[2]
      ]_vars

\* the loop is in a later step, writing into the reused u_next buffer, and has
\* just written an entry that differs from the current field's; update() has
\* run as well
C4_Witness ==
    /\ pc = "for_i" /\ n >= 1 /\ i >= 2
    /\ heap[u_next][i] # heap[u][i]
    /\ heap[u_next][i] # 0
    /\ mpc = "animate" /\ frame >= 2

-----------------------------------------------------------------------------
(* C5 *)

\* C5: with L <= 0, c <= 0, N < 3, dt <= 0 or T < 0 the run fails before any
\* grid or field is built and before any step is taken.
C5_InvalidParameterStops ==
    ~Valid(inp) =>
        /\ ~Built /\ ~MBuilt
        /\ pc \in {"parameters", "ZeroDivisionError"}
        /\ mpc \in {"get_parameters", "ZeroDivisionError"}
        /\ n = 0 /\ frame = 0

-----------------------------------------------------------------------------
(* C6 *)

\* C6: get_parameters warns exactly when C = c*dt/dx > 1; warned or not it
\* returns the literals with dx = L/(nx-1), and a run that has warned does not
\* raise and completes with all int(T/dt) frames.
C6_WarningNonFatal ==
    /\ params.nx = 0 => ~warned
    /\ params.nx # 0 =>
          LET d == FDiv(inp.L, (inp.nx - 1) * Unit)
              C == FDiv(FMul(inp.c, inp.dt), d)
          IN  /\ warned <=> (C > Unit)
              /\ params = [L |-> inp.L, T |-> inp.T, c |-> inp.c, nx |-> inp.nx,
                           dt |-> inp.dt, dx |-> d]
              /\ warned => mpc # "ZeroDivisionError"
              /\ (inp.T >= 0 /\ mpc = "animate") => frame <= total_frames
              /\ (inp.T >= 0 /\ mpc = "done") =>
                    /\ frame = total_frames
                    /\ frame = Floor(FDiv(inp.T, inp.dt))
                    /\ Len(mhist) = frame + 1

\* a run that warned has completed all of its (at least two) frames
C6_Witness ==
    /\ warned /\ mpc = "done" /\ frame >= 2 /\ Valid(inp)

-----------------------------------------------------------------------------
(* C7 *)

\* C7 as stated: from mirror-symmetric initial fields the current field is
\* mirror-symmetric after every step (stated for valid parameters).
C7_Symmetry ==
    (Valid(inp) /\ mhist # <<>> /\ Symmetric(mhist[1].cur) /\ Symmetric(mhist[1].prev)) =>
        Symmetric(mheap[state[1]])

\* Rounding tolerance.  eps = 2^-Precision bounds the relative error of one float
\* operation.  One step from fields of magnitude at most M rounds each entry by
\* at most eps*(7 + 17*C2)*M + 1 smallest float steps; the difference of two
\* mirror entries obeys the update rule itself, which multiplies it by at most
\* 2 + 4*C2 per step.  Tolerance(h, k) bounds it for the k-th recorded field.
CeilDiv(a, b) == (a + b - 1) \div b

AbsMax(f) == LET S == {Abs(f[k]) : k \in 1..Len(f)} IN CHOOSE v \in S : \A w \in S : w <= v

Asymmetry(f) == AbsMax([k \in 1..Len(f) |-> f[k] - f[Len(f) + 1 - k]])

StepError(cur, prev, C2) ==
    LET M == IF AbsMax(cur) > AbsMax(prev) THEN AbsMax(cur) ELSE AbsMax(prev)
    IN  CeilDiv(M, 2^Precision) * (7 + CeilDiv(17 * C2, Unit)) + 1

\* tolerances are followed up to TolCap smallest float steps
TolCap == 2^20

RECURSIVE Tolerance(_, _, _)
Tolerance(h, k, C2) ==
    IF k <= 1 THEN 0
    ELSE LET t1 == Tolerance(h, k - 1, C2)
             t2 == Tolerance(h, k - 2, C2)
             e  == StepError(h[k - 1].cur, h[k - 1].prev, C2)
         IN  IF t1 >= TolCap \/ t2 >= TolCap \/ e >= TolCap THEN TolCap
             ELSE Min((2 + CeilDiv(4 * C2, Unit)) * t1 + t2 + 2 * e, TolCap)

\* C7 amended: from mirror-symmetric initial fields, after every step n the
\* mirror entries of the current field agree within the accumulated rounding
\* tolerance: |field[i] - field[N-1-i]| <= Tol(n), where Tol(0) = 0 and
\* Tol(n+1) = (2 + 4*C2)*Tol(n) + Tol(n-1) + 2*(eps*(7 + 17*C2)*M(n) + 1 smallest
\* float step), M(n) the largest magnitude in the fields of steps n and n-1.
C7_SymmetryWithinTolerance ==
    (mhist # <<>> /\ Symmetric(mhist[1].cur) /\ Symmetric(mhist[1].prev)) =>
        \A k \in 1..Len(mhist) :
            LET tol == Tolerance(mhist, k, Courant2(params.c, params.dt, params.dx))
            IN  tol < TolCap => Asymmetry(mhist[k].cur) <= tol

\* two steps from a symmetric pulse on five or more points: rounding has broken
\* the exact symmetry, within a tolerance below the field's magnitude
C7_Witness ==
    /\ Len(mhist) >= 3 /\ Valid(inp)
    /\ Symmetric(mhist[1].cur)
    /\ params.nx >= 5
    /\ LET cur == mheap[state[1]]
           tol == Tolerance(mhist, Len(mhist), Courant2(params.c, params.dt, params.dx))
       IN  /\ Asymmetry(cur) > 0
           /\ Asymmetry(cur) <= tol
           /\ tol < AbsMax(cur)

-----------------------------------------------------------------------------
(* C8 *)

\* C8: with c = 0 (the other parameters valid) and previous = current = the
\* initial pulse, the current field equals the initial field at every index
\* after every step.
C8_ZeroSpeedFrozen ==
    (inp.c = 0 /\ inp.L > 0 /\ inp.nx >= 3 /\ inp.dt > 0 /\ inp.T >= 0) =>
        /\ \A k \in 1..Len(mhist) : mhist[k].cur = mhist[1].cur
        /\ \A k \in 1..Len(hist) : hist[k].cur = hist[1].cur

-----------------------------------------------------------------------------
(* C9 *)

\* C9: after k iterations previous holds the field that was current after k-1
\* iterations and current holds the solver's result for the fields of
\* iterations k-1 and k-2; the references read by the next solver pass are
\* these two fields.
C9_Rotation ==
    /\ \A k \in 2..Len(hist) :
          /\ hist[k].prev = hist[k - 1].cur
          /\ \A j \in 1..(inp.nx - 2) :
                hist[k].cur[j + 1] =
                    Kernel(hist[k - 1].cur, hist[k - 1].prev, j,
                           Courant2(inp.c, inp.dt, dx))
    /\ \A k \in 2..Len(mhist) :
          /\ mhist[k].prev = mhist[k - 1].cur
          /\ mhist[k].cur = compute_next_step(mhist[k - 1].cur, mhist[k - 1].prev, params)
    /\ hist # <<>> =>
          /\ heap[u] = hist[Len(hist)].cur
          /\ heap[u_prev] = hist[Len(hist)].prev
    /\ mhist # <<>> =>
          /\ mheap[state[1]] = mhist[Len(mhist)].cur
          /\ mheap[state[2]] = mhist[Len(mhist)].prev

\* both programs have rotated at least twice through three different fields
C9_Witness ==
    /\ Len(hist) >= 3 /\ Len(mhist) >= 3
    /\ hist[3].cur # hist[2].cur /\ hist[2].cur # hist[1].cur
    /\ hist[3].cur # hist[1].cur
    /\ mhist[3].cur # mhist[2].cur /\ mhist[2].cur # mhist[1].cur
    /\ pc = "for_i" /\ i >= 2

-----------------------------------------------------------------------------
(* C10 *)

\* C10: after every step both programs hold the same current and previous
\* fields, at every index.
C10_LoopEqualsVectorised ==
    \A k \in 1..Min(Len(hist), Len(mhist)) : hist[k] = mhist[k]

\* both programs have done three steps on a grid with several interior points
\* and hold a field that is not zero in the interior
C10_Witness ==
    /\ Len(hist) >= 4 /\ Len(mhist) >= 4
    /\ inp.nx >= 4
    /\ hist[4].cur[2] # 0 /\ hist[4].cur[3] # 0
    /\ hist[4].cur # hist[3].cur
    /\ hist[4] = mhist[4]

====
